---- MODULE Spec2Model ----
(***************************************************************************)
(* A model of wsiarch: the random up-padding transform, the split dataset  *)
(* with its class-index mapping, the batch loaders and the data module of  *)
(* wsiarch/data/dataloaders.py, the shape bookkeeping of the multi-head    *)
(* attention classifier of wsiarch/models/transformer_heme_cell_mil.py,    *)
(* and the training runs that train_model of that file and of              *)
(* wsiarch/models/hyena.py start.                                          *)
(*                                                                         *)
(* Arrays are modelled by their shape and, for the padding transform, by   *)
(* their cells.  A call that draws random numbers is modelled by the set   *)
(* of outcomes it can produce.  Python assert statements are modelled as   *)
(* executed (the interpreter is not run with -O).                          *)
(***************************************************************************)
EXTENDS Integers, Sequences, FiniteSets, TLC

VARIABLES
    pad_call,      \* the arguments of one call of random_up_padding
    pad_out,       \* what the call produced (Pending before it ran)
    attn_args,     \* the arguments of MultiHeadAttentionClassifier(...)
    attn_ctor,     \* what the construction produced: the object or the error
    fwd_x,         \* the shape of the input of the latest forward call
    fwd_out,       \* what the latest forward call produced
    disk_meta,     \* the metadata csv on disk: its rows, or NoFile
    ds,            \* the latest FeatureImageDataset(...) call and its outcome
    disk_files,    \* the feature files on disk: idx -> image, or NoFile
    dm,            \* the FeatureImageDataModule object
    allocs,        \* how many create_data_loaders calls have returned loaders
    call,          \* the latest call on the data module and what it produced
    it,            \* the pass over a loader that is under way, or the last one
    run            \* one run of train_model: the trainer's position and history

padVars == <<pad_call, pad_out>>
attnVars == <<attn_args, attn_ctor, fwd_x, fwd_out>>
diskVars == <<disk_meta, disk_files>>
dataVars == <<disk_meta, disk_files, ds, dm, allocs, call, it>>

vars == <<pad_call, pad_out, attn_args, attn_ctor, fwd_x, fwd_out,
          disk_meta, disk_files, ds, dm, allocs, call, it, run>>

(***************************************************************************)
(* Bounds of the model.                                                    *)
(***************************************************************************)
MaxDepth == 2
MaxDim == 3
MaxDModel == 4
MaxHeads == 3
MaxClasses == 2
MaxLength == 2
MaxBatch == 2
MaxRows == 3
MaxSetups == 2
MaxBatchSize == 2
MaxLoaderRows == 4

Min(a, b) == IF a < b THEN a ELSE b

(***************************************************************************)
(* numpy, as far as random_up_padding uses it.                             *)
(***************************************************************************)

\* A 3-axis array: its shape and its cells, indexed from 0 as in Python.
Cells(d, h, w) == (0..(d - 1)) \X (0..(h - 1)) \X (0..(w - 1))

NoArray == [shape |-> <<>>, data |-> <<>>]

\* np.zeros((depth, height_max, width_max))
zeros(d, h, w) ==
    [shape |-> <<d, h, w>>, data |-> [p \in Cells(d, h, w) |-> 0]]

\* An input image of the model: its cells are: all zero (scale 0) or pairwise distinct and
\* nonzero (scale 1).
InputImage(d, h, w, scale) ==
    [shape |-> <<d, h, w>>,
     data |-> [p \in Cells(d, h, w) |->
                 scale * (100 * p[1] + 10 * p[2] + p[3] + 1)]]

\* np.random.randint(low, high): the values it can return, low inclusive and
\* high exclusive; the empty set stands for its ValueError (low >= high).
randint(low, high) == IF low >= high THEN {} ELSE low..(high - 1)

\* The outcome of a call: what it returned or raised, the statements it ran
\* (events) and the offsets it drew (-1: not drawn).
Pending == [status |-> "pending", error |-> "", events |-> <<>>,
            y |-> -1, x |-> -1, value |-> NoArray]

Raised(err, ev, y, x) ==
    [status |-> "raised", error |-> err, events |-> ev,
     y |-> y, x |-> x, value |-> NoArray]

Returned(val, ev, y, x) ==
    [status |-> "returned", error |-> "", events |-> ev,
     y |-> y, x |-> x, value |-> val]

\* canvas[:, y:y+height, x:x+width] = img, for y, x >= 0.  A slice is clipped
\* to the canvas; the image is broadcast to the clipped block (an axis of the
\* image fits when it has the block's length or length 1), the assignment
\* raises (NoArray) when it does not fit, and otherwise overwrites exactly
\* the cells of the block.
\* (SliceAssignSwapped is the faulty variant that takes y for the column and
\* x for the row; C1 must tell the two apart.)
SliceAssignSwapped(canvas, y, x, img) ==
    LET height == img.shape[2]
        width == img.shape[3]
    IN  [shape |-> canvas.shape,
         data |-> [p \in DOMAIN canvas.data |->
                     IF /\ p[2] >= x /\ p[2] < x + height
                        /\ p[3] >= y /\ p[3] < y + width
                     THEN img.data[<<p[1], p[2] - x, p[3] - y>>]
                     ELSE canvas.data[p]]]

SliceAssign(canvas, y, x, img) ==
    LET H == canvas.shape[2]
        W == canvas.shape[3]
        height == img.shape[2]
        width == img.shape[3]
        rows == Min(y + height, H) - Min(y, H)
        cols == Min(x + width, W) - Min(x, W)
    IN  IF \/ rows # height /\ height # 1
           \/ cols # width /\ width # 1
           \/ canvas.shape[1] # img.shape[1]
        THEN NoArray
        ELSE [shape |-> canvas.shape,
              data |-> [p \in DOMAIN canvas.data |->
                          IF /\ p[2] >= y /\ p[2] < y + height
                             /\ p[3] >= x /\ p[3] < x + width
                          THEN img.data[<<p[1], p[2] - y, p[3] - x>>]
                          ELSE canvas.data[p]]]

(***************************************************************************)
(* random_up_padding(feature_image, height_max, width_max): the set of     *)
(* outcomes of one call.                                                   *)
(***************************************************************************)
\* The assertion of lines 15-17 (PadAssertionOr is the faulty variant that is
\* content with one dimension fitting; C10 must tell the two apart).
PadAssertionOr(height, width, height_max, width_max) ==
    width <= width_max \/ height <= height_max

PadAssertion(height, width, height_max, width_max) ==
    width <= width_max /\ height <= height_max

\* The exclusive upper end of the offsets drawn on lines 23-24
\* (OffsetHighNoPlusOne is the faulty variant without the + 1; C2 must tell
\* the two apart).
OffsetHighNoPlusOne(size_max, size) == size_max - size

OffsetHigh(size_max, size) == size_max - size + 1

PadPlace(feature_image, canvas, y, x, ev) ==
    LET padded_feature_image == SliceAssign(canvas, y, x, feature_image)
    IN  IF padded_feature_image = NoArray
        THEN Raised("ValueError", ev \o <<"assign">>, y, x)
        ELSE Returned(padded_feature_image, ev \o <<"assign", "return">>, y, x)

random_up_padding(feature_image, height_max, width_max) ==
    LET depth == feature_image.shape[1]
        height == feature_image.shape[2]
        width == feature_image.shape[3]
    IN  IF ~PadAssertion(height, width, height_max, width_max)
        THEN {Raised("AssertionError", <<"assert">>, -1, -1)}
        ELSE LET canvas == zeros(depth, height_max, width_max)
                 ys == randint(0, OffsetHigh(height_max, height))
                 xs == randint(0, OffsetHigh(width_max, width))
             IN  IF ys = {}
                 THEN {Raised("ValueError",
                              <<"assert", "zeros", "randint_y">>, -1, -1)}
                 ELSE IF xs = {}
                 THEN {Raised("ValueError",
                              <<"assert", "zeros", "randint_y", "randint_x">>,
                              y, -1) : y \in ys}
                 ELSE {PadPlace(feature_image, canvas, y, x,
                                <<"assert", "zeros", "randint_y", "randint_x">>)
                          : y \in ys, x \in xs}

(***************************************************************************)
(* torch, as far as MultiHeadAttentionClassifier uses it.  A tensor is     *)
(* modelled by its shape and by the tags of the positions of its sequence  *)
(* axis (0 for the class token, i for the i-th position of the input); an  *)
(* operation that raises yields a tensor whose err names the exception,    *)
(* and an operation on such a tensor yields it unchanged (the exception    *)
(* propagates).                                                            *)
(***************************************************************************)
RECURSIVE Prod(_)
Prod(shape) == IF shape = <<>> THEN 1 ELSE Head(shape) * Prod(Tail(shape))

Tensor(shape, seq) == [err |-> "", shape |-> shape, seq |-> seq]
Err(name) == [err |-> name, shape |-> <<>>, seq |-> <<>>]

\* nn.Linear(in_features, out_features) applied to a tensor.
Linear(in_features, out_features, t) ==
    IF t.err # "" THEN t
    ELSE IF t.shape[Len(t.shape)] # in_features THEN Err("RuntimeError")
    ELSE Tensor([t.shape EXCEPT ![Len(t.shape)] = out_features], t.seq)

\* t.expand(n, -1, -1) of a 3-axis tensor: axis 0 must have length 1 or n.
expand(t, n) ==
    IF t.err # "" THEN t
    ELSE IF t.shape[1] # 1 /\ t.shape[1] # n THEN Err("RuntimeError")
    ELSE Tensor([t.shape EXCEPT ![1] = n], t.seq)

\* torch.cat([a, b], dim=1) of 3-axis tensors: the other axes must agree.
cat1(a, b) ==
    IF a.err # "" THEN a
    ELSE IF b.err # "" THEN b
    ELSE IF a.shape[1] # b.shape[1] \/ a.shape[3] # b.shape[3]
    THEN Err("RuntimeError")
    ELSE Tensor(<<a.shape[1], a.shape[2] + b.shape[2], a.shape[3]>>,
                a.seq \o b.seq)

\* t.view(*target), where target holds at most one -1: the -1 is inferred from
\* the number of elements, which raises when the other lengths multiply to 0
\* (the inferred length is ambiguous) or do not divide the number of elements.
view(t, target) ==
    IF t.err # "" THEN t
    ELSE LET numel == Prod(t.shape)
             holes == {i \in DOMAIN target : target[i] = -1}
             known == Prod([i \in DOMAIN target |->
                              IF target[i] = -1 THEN 1 ELSE target[i]])
         IN  IF holes = {}
             THEN IF numel = known THEN Tensor(target, t.seq)
                  ELSE Err("RuntimeError")
             ELSE IF known = 0 THEN Err("RuntimeError")
             ELSE IF numel % known # 0 THEN Err("RuntimeError")
             ELSE Tensor([i \in DOMAIN target |->
                            IF target[i] = -1 THEN numel \div known
                            ELSE target[i]], t.seq)

\* t.transpose(i, j), with axes counted from 0.
transpose(t, i, j) ==
    IF t.err # "" THEN t
    ELSE Tensor([t.shape EXCEPT ![i + 1] = t.shape[j + 1],
                                ![j + 1] = t.shape[i + 1]], t.seq)

\* t.contiguous(): the same shape.
contiguous(t) == t

\* Broadcasting of one leading axis by torch.matmul: two lengths go together
\* when they are equal or one of them is 1, and the result has the other.
Broadcastable(m, n) == m = n \/ m = 1 \/ n = 1
Broadcast(m, n) == IF m = 1 THEN n ELSE m

\* torch.matmul(a, b) of 4-axis tensors: the two leading axes broadcast, the
\* last axis of a must have the length of the third axis of b.
matmul(a, b) ==
    IF a.err # "" THEN a
    ELSE IF b.err # "" THEN b
    ELSE IF \/ ~Broadcastable(a.shape[1], b.shape[1])
            \/ ~Broadcastable(a.shape[2], b.shape[2])
            \/ a.shape[4] # b.shape[3]
    THEN Err("RuntimeError")
    ELSE Tensor(<<Broadcast(a.shape[1], b.shape[1]),
                  Broadcast(a.shape[2], b.shape[2]),
                  a.shape[3], b.shape[4]>>, a.seq)

\* Attn.forward(q, k, v) on (N, heads, length, head_dim) tensors, by the fused
\* kernel or by matmul, softmax and matmul.  The fused kernel computes the
\* same product, so both paths have the shapes of the two matmuls: head_dim of
\* q and k must agree, k and v must have the same length, the leading axes
\* broadcast, and the result has one row per position of q.  Scaling and
\* softmax keep the shape.
AttnForward(use_flash_attention, q, k, v) ==
    IF use_flash_attention
    THEN matmul(matmul(q, transpose(k, 2, 3)), v)
    ELSE LET attn_scores == matmul(q, transpose(k, 2, 3))
             attn_probs == attn_scores
         IN  matmul(attn_probs, v)

(***************************************************************************)
(* MultiHeadAttentionClassifier.                                           *)
(***************************************************************************)
NoObject == [d_model |-> 0, num_heads |-> 0, head_dim |-> 0,
             use_flash_attention |-> FALSE, num_classes |-> 0,
             length_max |-> 0]

\* The assertion of line 50 (HeadsAssertionNone is the faulty variant that
\* checks nothing; C6 must tell the two apart).
HeadsAssertionNone(d_model, num_heads) == TRUE

HeadsAssertion(d_model, num_heads) == d_model % num_heads = 0

\* __init__: the object it builds, or the exception it raises (and then the
\* caller gets no object).
MultiHeadAttentionClassifierInit(d_model, num_heads, num_classes, length_max, use_flash_attention) ==
    LET self == [d_model |-> d_model,
                 num_heads |-> num_heads,
                 head_dim |-> d_model \div num_heads,
                 use_flash_attention |-> use_flash_attention,
                 num_classes |-> num_classes,
                 length_max |-> length_max]
    IN  IF ~HeadsAssertion(d_model, num_heads)
        THEN [status |-> "raised", error |-> "AssertionError",
              object |-> NoObject]
        ELSE [status |-> "returned", error |-> "", object |-> self]

NoLogits == [status |-> "pending", error |-> "", logits |-> <<>>,
             attended |-> -1, classified |-> -1]

ForwardRaised(err) ==
    [status |-> "raised", error |-> err, logits |-> <<>>,
     attended |-> -1, classified |-> -1]

\* The order of torch.cat on line 79.
ClassTokenFirst(class_tokens, x) == cat1(class_tokens, x)

\* The comparison of lines 74-76 (LengthAssertionAtMost is the faulty variant
\* that lets shorter sequences pass; C7 must tell the two apart).
LengthAssertionAtMost(length, length_max) == length <= length_max

LengthAssertion(length, length_max) == length = length_max

\* forward(x) for an input of shape (batch_size, length, d_model): the shape of
\* the logits, the length of the sequence attention ran over and the tag of
\* the position that was classified, or the exception raised.
MultiHeadAttentionClassifierForward(self, xshape) ==
    LET batch_size == xshape[1]
        length == xshape[2]
        d_model == xshape[3]
    IN  IF d_model # self.d_model THEN ForwardRaised("AssertionError")
        ELSE IF self.length_max \notin Int THEN ForwardRaised("AssertionError")
        ELSE IF ~LengthAssertion(length, self.length_max)
        THEN ForwardRaised("AssertionError")
        ELSE
        LET x0 == Tensor(xshape, [i \in 1..length |-> i])
            class_token == Tensor(<<1, 1, self.d_model>>, <<0>>)
            class_tokens == expand(class_token, batch_size)
            x == ClassTokenFirst(class_tokens, x0)
            heads == <<batch_size, -1, self.num_heads, self.head_dim>>
            q == transpose(view(Linear(self.d_model, self.d_model, x), heads),
                           1, 2)
            k == transpose(view(Linear(self.d_model, self.d_model, x), heads),
                           1, 2)
            v == transpose(view(Linear(self.d_model, self.d_model, x), heads),
                           1, 2)
            attn_output == AttnForward(self.use_flash_attention, q, k, v)
            merged == view(contiguous(transpose(attn_output, 1, 2)),
                           <<batch_size, -1, self.d_model>>)
            output == Linear(self.d_model, self.d_model, merged)
            class_token_output ==
                IF output.err # "" THEN output
                ELSE IF output.shape[2] = 0 THEN Err("IndexError")
                ELSE Tensor(<<output.shape[1], output.shape[3]>>,
                            <<output.seq[1]>>)
            logits == Linear(self.d_model, self.num_classes, class_token_output)
        IN  IF logits.err # "" THEN ForwardRaised(logits.err)
            ELSE [status |-> "returned", error |-> "",
                  logits |-> logits.shape,
                  attended |-> q.shape[3],
                  classified |-> logits.seq[1]]

(***************************************************************************)
(* Python dicts, as insertion-ordered sequences of <<key, value>> pairs    *)
(* with pairwise distinct keys.                                            *)
(***************************************************************************)
Keys(d) == {d[i][1] : i \in DOMAIN d}
Values(d) == {d[i][2] : i \in DOMAIN d}
Lookup(d, k) == d[CHOOSE i \in DOMAIN d : d[i][1] = k][2]

\* d[k] = v: the value of an existing key is replaced in place, a new key is
\* appended.
DictSet(d, k, v) ==
    IF k \in Keys(d)
    THEN [i \in DOMAIN d |-> IF d[i][1] = k THEN <<k, v>> ELSE d[i]]
    ELSE Append(d, <<k, v>>)

\* {k: v for (k, v) in pairs}
RECURSIVE DictComp(_)
DictComp(pairs) ==
    IF pairs = <<>> THEN <<>>
    ELSE LET last == pairs[Len(pairs)]
         IN  DictSet(DictComp(SubSeq(pairs, 1, Len(pairs) - 1)),
                     last[1], last[2])

(***************************************************************************)
(* pandas, as far as FeatureImageDataset uses it.  A table is the sequence *)
(* of its rows, each a record of the columns idx, class and split.         *)
(***************************************************************************)
\* A csv on disk: whether the file exists, and its rows.
NoFile == [exists |-> FALSE, rows |-> <<>>]
CsvFile(rows) == [exists |-> TRUE, rows |-> rows]

Column(table, col) == [i \in DOMAIN table |-> table[i][col]]

\* series.unique(): the distinct values in the order of their first
\* occurrence.
RECURSIVE Unique(_)
Unique(series) ==
    IF series = <<>> THEN <<>>
    ELSE LET seen == Unique(SubSeq(series, 1, Len(series) - 1))
             last == series[Len(series)]
         IN  IF \E i \in DOMAIN seen : seen[i] = last THEN seen
             ELSE Append(seen, last)

\* Whether the string a occurs in the string b, for the split tags of the
\* model (used by FilterSplitContains only).
Contains(a, b) == a = b \/ (b = "trainval" /\ a \in {"train", "val"})

\* metadata[metadata["split"] == split]: the rows whose split equals the one
\* asked for, in the order of the table (FilterSplitContains is the faulty
\* variant that matches substrings; C3 must tell the two apart).
FilterSplitContains(table, split) ==
    SelectSeq(table, LAMBDA row : Contains(split, row.split))

FilterSplit(table, split) ==
    SelectSeq(table, LAMBDA row : row.split = split)

(***************************************************************************)
(* FeatureImageDataset.                                                    *)
(***************************************************************************)
NoDataset == [metadata |-> <<>>, width_max |-> 0, height_max |-> 0,
              class_to_index |-> <<>>, index_to_class |-> <<>>]

\* The classes the mapping enumerates (line 57; ClassesNotUnique is the
\* faulty variant without unique(); C4 must tell the two apart).
ClassesNotUnique(metadata) == Column(metadata, "class")

ClassesToEnumerate(metadata) == Unique(Column(metadata, "class"))

\* __init__: the dataset built from the csv on disk, or the exception of
\* pd.read_csv when the csv is missing.
FeatureImageDataset(csv, split, width_max, height_max) ==
    IF ~csv.exists
    THEN [status |-> "raised", error |-> "FileNotFoundError",
          object |-> NoDataset]
    ELSE LET metadata == FilterSplit(csv.rows, split)
             classes == ClassesToEnumerate(metadata)
             class_to_index ==
                 DictComp([i \in DOMAIN classes |-> <<classes[i], i - 1>>])
             index_to_class ==
                 DictComp([i \in DOMAIN class_to_index |->
                             <<class_to_index[i][2], class_to_index[i][1]>>])
         IN  [status |-> "returned", error |-> "",
              object |-> [metadata |-> metadata,
                          width_max |-> width_max,
                          height_max |-> height_max,
                          class_to_index |-> class_to_index,
                          index_to_class |-> index_to_class]]

\* __len__
DatasetLen(self) == Len(self.metadata)

(***************************************************************************)
(* create_data_loaders.  A loader is the record of the arguments of its    *)
(* Dataloader(...) call; id tells the loader objects of different calls    *)
(* apart (the n-th call builds <<n, "train">>, <<n, "val">>, <<n, "test">>)*)
(***************************************************************************)
NoLoader == [id |-> <<0, "">>, dataset |-> NoDataset, batch_size |-> 0,
             shuffle |-> FALSE, num_workers |-> 0, prefetch_factor |-> 0]

\* Dataloader(dataset, batch_size=, shuffle=, num_workers=): the outcomes of
\* the construction.  With shuffle=True torch builds a RandomSampler, which in
\* some versions of torch raises ValueError for an empty dataset.
\* prefetch_factor is not passed: torch sets it to 2 for a loader with
\* workers, and a loader without workers does not prefetch.
Dataloader(id, dataset, batch_size, shuffle, num_workers) ==
    {[status |-> "returned", error |-> "",
      object |-> [id |-> id, dataset |-> dataset, batch_size |-> batch_size,
                  shuffle |-> shuffle, num_workers |-> num_workers,
                  prefetch_factor |-> IF num_workers > 0 THEN 2 ELSE 0]]}
    \cup (IF shuffle /\ DatasetLen(dataset) = 0
          THEN {[status |-> "raised", error |-> "ValueError",
                 object |-> NoLoader]}
          ELSE {})

LoadersRaised(err) ==
    [status |-> "raised", error |-> err,
     train_loader |-> NoLoader, val_loader |-> NoLoader,
     test_loader |-> NoLoader]

\* The shuffle flags of lines 122-131.
Shuffle(split) == split = "train"

\* create_data_loaders, called for the n-th time: its outcomes.
create_data_loaders(n, csv, height_max, width_max, batch_size, num_workers) ==
    LET train_dataset == FeatureImageDataset(csv, "train", width_max, height_max)
        val_dataset == FeatureImageDataset(csv, "val", width_max, height_max)
        test_dataset == FeatureImageDataset(csv, "test", width_max, height_max)
    IN  IF train_dataset.status = "raised"
        THEN {LoadersRaised(train_dataset.error)}
        ELSE IF val_dataset.status = "raised"
        THEN {LoadersRaised(val_dataset.error)}
        ELSE IF test_dataset.status = "raised"
        THEN {LoadersRaised(test_dataset.error)}
        ELSE
        {IF train_loader.status = "raised"
         THEN LoadersRaised(train_loader.error)
         ELSE IF val_loader.status = "raised"
         THEN LoadersRaised(val_loader.error)
         ELSE IF test_loader.status = "raised"
         THEN LoadersRaised(test_loader.error)
         ELSE [status |-> "returned", error |-> "",
               train_loader |-> train_loader.object,
               val_loader |-> val_loader.object,
               test_loader |-> test_loader.object] :
           train_loader \in Dataloader(<<n, "train">>, train_dataset.object,
                                       batch_size, Shuffle("train"),
                                       num_workers),
           val_loader \in Dataloader(<<n, "val">>, val_dataset.object,
                                     batch_size, Shuffle("val"), num_workers),
           test_loader \in Dataloader(<<n, "test">>, test_dataset.object,
                                      batch_size, Shuffle("test"),
                                      num_workers)}

(***************************************************************************)
(* FeatureImageDataModule.  The object is its configuration and the        *)
(* attributes setup has assigned (attrs: attribute name -> loader).        *)
(***************************************************************************)
DefaultBatchSize == 32
DefaultNumWorkers == 12

LoaderAttrs == {"train_loader", "val_loader", "test_loader"}

\* __init__
FeatureImageDataModule(width_max, height_max, batch_size, num_workers) ==
    [width_max |-> width_max, height_max |-> height_max,
     batch_size |-> batch_size, num_workers |-> num_workers,
     attrs |-> <<>>]

\* self.<name>: the attribute, or AttributeError when it was never assigned.
GetAttr(self, name) ==
    IF name \in DOMAIN self.attrs
    THEN [status |-> "returned", error |-> "", value |-> self.attrs[name]]
    ELSE [status |-> "raised", error |-> "AttributeError", value |-> NoLoader]

\* setup: the outcomes of the call, each the object after the call and what
\* the call raised ("" if nothing).  The three attributes are assigned only
\* once create_data_loaders has returned.
ModuleSetup(self, n, csv) ==
    {IF built.status = "raised"
     THEN [self |-> self, error |-> built.error]
     ELSE [self |-> [self EXCEPT !.attrs = [a \in LoaderAttrs |-> built[a]]],
           error |-> ""] :
       built \in create_data_loaders(n, csv, self.height_max, self.width_max,
                                     self.batch_size, self.num_workers)}

\* The accessors (val_dataloader_test is the faulty variant of val_dataloader
\* that returns the test loader; C9 must tell the two apart).
train_dataloader(self) == GetAttr(self, "train_loader")

val_dataloader_test(self) == GetAttr(self, "test_loader")

val_dataloader(self) == GetAttr(self, "val_loader")

test_dataloader(self) == GetAttr(self, "test_loader")

(***************************************************************************)
(* FeatureImageDataset.__getitem__ and one pass over a loader.  A sample   *)
(* tensor is modelled by its shape.  Samples are fetched in the order of   *)
(* the sampler, one batch per next(); the worker processes of the loader   *)
(* change when a sample is fetched, not which samples a batch holds nor    *)
(* the order of the batches.                                               *)
(***************************************************************************)

\* A feature file on disk: whether it exists, and its feature_image.
MissingFile == [exists |-> FALSE, image |-> NoArray]
FeatureFile(image) == [exists |-> TRUE, image |-> image]

ItemRaised(err) ==
    [status |-> "raised", error |-> err, sample |-> <<>>, class_index |-> -1]

\* The keyword arguments of the call on lines 78-80, as (height_max,
\* width_max).
PadArgs(self) == <<self.height_max, self.width_max>>

\* __getitem__(idx): the outcomes of fetching the row at position idx of the
\* dataset's rows (iloc: from 0, a negative idx counts from the end).
GetItem(self, files, idx) ==
    IF idx < -Len(self.metadata) \/ idx >= Len(self.metadata)
    THEN {ItemRaised("IndexError")}
    ELSE LET row == self.metadata[IF idx < 0 THEN Len(self.metadata) + idx + 1
                                  ELSE idx + 1]
             h5_file == files[row.idx]
         IN  IF ~h5_file.exists THEN {ItemRaised("FileNotFoundError")}
             ELSE {IF padded.status = "raised" THEN ItemRaised(padded.error)
                   ELSE [status |-> "returned", error |-> "",
                         sample |-> padded.value.shape,
                         class_index |->
                             Lookup(self.class_to_index, row["class"])] :
                     padded \in random_up_padding(h5_file.image,
                                                  PadArgs(self)[1],
                                                  PadArgs(self)[2])}

\* The orders in which the sampler of a loader yields the positions 0..n-1:
\* every permutation when the loader shuffles, the ascending one otherwise.
SamplerOrders(loader) ==
    LET n == DatasetLen(loader.dataset)
    IN  IF loader.shuffle
        THEN {o \in [1..n -> 0..(n - 1)] :
                \A i \in 1..n, j \in 1..n : o[i] = o[j] => i = j}
        ELSE {[i \in 1..n |-> i - 1]}

\* Fetching the samples at the positions idxs in turn, stopping at the first
\* fetch that raises: the samples fetched and the positions tried.
RECURSIVE FetchAll(_, _, _)
FetchAll(dataset, files, idxs) ==
    IF idxs = <<>>
    THEN {[status |-> "returned", error |-> "", items |-> <<>>,
           tried |-> <<>>]}
    ELSE UNION {
           IF first.status = "raised"
           THEN {[status |-> "raised", error |-> first.error, items |-> <<>>,
                  tried |-> <<Head(idxs)>>]}
           ELSE {[rest EXCEPT !.items = <<first>> \o rest.items,
                              !.tried = <<Head(idxs)>> \o rest.tried] :
                   rest \in FetchAll(dataset, files, Tail(idxs))} :
           first \in GetItem(dataset, files, Head(idxs))}

\* default_collate: the samples are stacked, which needs them all to have the
\* same shape, and the class indices are put side by side.
Collate(items) ==
    IF \E i \in DOMAIN items : items[i].sample # items[1].sample
    THEN [status |-> "raised", error |-> "RuntimeError", x |-> <<>>, y |-> <<>>]
    ELSE [status |-> "returned", error |-> "",
          x |-> <<Len(items)>> \o items[1].sample,
          y |-> [i \in DOMAIN items |-> items[i].class_index]]

\* A pass over a loader.  order is the order of the sampler, pos the number
\* of positions whose batches next() has handed over, batches those batches
\* and fetched the number of fetches of each position.  A loader with
\* workers also keeps the index batches it has sent to its workers (sent is
\* the number of positions they cover) and what became of each (tasks).
NoPass == [attr |-> "", status |-> "idle", error |-> "", order |-> <<>>,
           pos |-> 0, batches |-> <<>>, fetched |-> <<>>, sent |-> 0,
           tasks |-> <<>>]

\* The positions of the next batch: the next batch_size of the order, or the
\* ones that are left (drop_last is False).
BatchEnd(pass, loader) ==
    Min(pass.pos + loader.batch_size, Len(pass.order))

\* fetched counts the fetches of each position (kept from 1: position + 1).
CountFetches(fetched, tried) ==
    [i \in DOMAIN fetched |->
       fetched[i] + Cardinality({j \in DOMAIN tried : tried[j] + 1 = i})]

\* Whether the sampler has no position left for a batch (drop_last is False:
\* a last batch may be short; PassExhaustedDropLast is the faulty variant
\* that drops it; C8 must tell the two apart).
PassExhaustedDropLast(pass, loader) ==
    Len(pass.order) - pass.pos < loader.batch_size

PassExhausted(pass, loader) == pass.pos >= Len(pass.order)

\* An index batch in the queue of a worker, not yet fetched.
Task(idxs) ==
    [idxs |-> idxs, status |-> "pending", error |-> "", x |-> <<>>,
     y |-> <<>>]

\* The iterator of a loader with workers sends the next index batch of the
\* sampler to a worker, if the sampler has one left.
TryPutIndex(pass, loader) ==
    LET at == [pass EXCEPT !.pos = pass.sent]
        last == BatchEnd(at, loader)
    IN  IF PassExhausted(at, loader) THEN pass
        ELSE [pass EXCEPT
                !.sent = last,
                !.tasks = Append(@, Task(SubSeq(pass.order, pass.sent + 1,
                                                last)))]

\* n index batches sent one after the other.
RECURSIVE PutIndexes(_, _, _)
PutIndexes(pass, loader, n) ==
    IF n = 0 \/ TryPutIndex(pass, loader) = pass THEN pass
    ELSE PutIndexes(TryPutIndex(pass, loader), loader, n - 1)

\* iter(loader): a new pass; the sampler fixes the order of the positions.
\* A loader with workers starts them and sends them prefetch_factor index
\* batches each before the first next(); a loader without fetches nothing
\* until next().
LoaderIter(attr, loader) ==
    {LET pass == [attr |-> attr, status |-> "active", error |-> "",
                  order |-> o, pos |-> 0, batches |-> <<>>,
                  fetched |-> [i \in 1..DatasetLen(loader.dataset) |-> 0],
                  sent |-> 0, tasks |-> <<>>]
     IN  IF loader.num_workers = 0 THEN pass
         ELSE PutIndexes(pass, loader,
                         loader.prefetch_factor * loader.num_workers) :
       o \in SamplerOrders(loader)}

\* The index batches a worker can take up: index batches go to the workers
\* in turn, and a worker takes those of its queue one after the other.
WorkerTasks(pass, loader) ==
    {k \in DOMAIN pass.tasks :
       /\ pass.tasks[k].status = "pending"
       /\ \/ k <= loader.num_workers
          \/ pass.tasks[k - loader.num_workers].status # "pending"}

\* A worker takes up the index batch k: it fetches the samples in turn and
\* collates them, and puts the batch, or the exception of the fetch or of
\* the collation, on the result queue.
WorkerLoop(pass, loader, files, k) ==
    {LET batch == Collate(got.items)
     IN  [pass EXCEPT
            !.fetched = CountFetches(@, got.tried),
            !.tasks[k] =
                IF got.status = "raised"
                THEN [@ EXCEPT !.status = "raised", !.error = got.error]
                ELSE IF batch.status = "raised"
                THEN [@ EXCEPT !.status = "raised", !.error = batch.error]
                ELSE [@ EXCEPT !.status = "returned", !.x = batch.x,
                               !.y = batch.y]] :
       got \in FetchAll(loader.dataset, files, pass.tasks[k].idxs)}

\* next(iterator) of a loader without workers: StopIteration when the order
\* is used up (the pass is done); otherwise the positions of the next batch
\* are fetched and collated, and the batch, or the exception of a fetch or
\* of the collation, which ends the pass, is the outcome.
SingleProcessNext(pass, loader, files) ==
    IF PassExhausted(pass, loader) THEN {[pass EXCEPT !.status = "done"]}
    ELSE LET last == BatchEnd(pass, loader)
             idxs == SubSeq(pass.order, pass.pos + 1, last)
         IN  {LET counted == [pass EXCEPT
                                !.fetched = CountFetches(@, got.tried)]
                  batch == Collate(got.items)
              IN  IF got.status = "raised"
                  THEN [counted EXCEPT !.status = "raised",
                                       !.error = got.error]
                  ELSE IF batch.status = "raised"
                  THEN [counted EXCEPT !.status = "raised",
                                       !.error = batch.error]
                  ELSE [counted EXCEPT !.pos = last,
                                       !.batches = Append(@, [x |-> batch.x,
                                                              y |-> batch.y])] :
                got \in FetchAll(loader.dataset, files, idxs)}

\* next(iterator) of a loader with workers: StopIteration when every index
\* batch sent has been handed over; otherwise it waits for the result of the
\* oldest index batch not handed over (whatever the workers have done with
\* the later ones), sends the workers one more index batch, and hands over
\* the batch or raises the exception the worker met, which ends the pass.
MultiProcessingNext(pass, loader, files) ==
    LET k == Len(pass.batches) + 1
    IN  IF k > Len(pass.tasks) THEN {[pass EXCEPT !.status = "done"]}
        ELSE {LET task == got.tasks[k]
                  put == TryPutIndex(got, loader)
              IN  IF task.status = "raised"
                  THEN [put EXCEPT !.status = "raised",
                                   !.error = task.error]
                  ELSE [put EXCEPT !.pos = @ + Len(task.idxs),
                                   !.batches = Append(@, [x |-> task.x,
                                                          y |-> task.y])] :
                got \in IF pass.tasks[k].status = "pending"
                        THEN WorkerLoop(pass, loader, files, k)
                        ELSE {pass}}

\* next(iterator).
LoaderNext(pass, loader, files) ==
    IF loader.num_workers = 0 THEN SingleProcessNext(pass, loader, files)
    ELSE MultiProcessingNext(pass, loader, files)

(***************************************************************************)
(* Each specification below runs one component; the variables of the      *)
(* others keep these values.                                               *)
(***************************************************************************)
NoPadCall == [feature_image |-> NoArray, height_max |-> 0, width_max |-> 0]
NotConstructed == [status |-> "pending", error |-> "", object |-> NoObject]
NoDatasetCall == [split |-> "", status |-> "pending", error |-> "",
                  object |-> NoDataset]
NoModule == FeatureImageDataModule(0, 0, 0, 0)
NoRun == [pc |-> "idle"]
NoCall == [op |-> "", status |-> "pending", error |-> "", value |-> NoLoader,
           dm_before |-> NoModule]

(***************************************************************************)
(* The classifier on its own: one construction on arguments drawn from the *)
(* bounded sets, then forward calls on inputs of any shape.                *)
(***************************************************************************)
AttnInit ==
    /\ \E d_model \in 1..MaxDModel, num_heads \in 1..MaxHeads,
          num_classes \in 1..MaxClasses, length_max \in 1..MaxLength,
          use_flash_attention \in BOOLEAN :
          attn_args = <<d_model, num_heads, num_classes, length_max,
                        use_flash_attention>>
    /\ attn_ctor = NotConstructed
    /\ fwd_x = <<>>
    /\ fwd_out = NoLogits
    /\ pad_call = NoPadCall
    /\ pad_out = Pending
    /\ disk_meta = NoFile
    /\ disk_files = <<>>
    /\ ds = NoDatasetCall
    /\ dm = NoModule
    /\ allocs = 0
    /\ call = NoCall
    /\ it = NoPass
    /\ run = NoRun

Construct ==
    /\ attn_ctor.status = "pending"
    /\ attn_ctor' = MultiHeadAttentionClassifierInit(
                        attn_args[1], attn_args[2], attn_args[3], attn_args[4],
                        attn_args[5])
    /\ UNCHANGED <<attn_args, fwd_x, fwd_out, padVars, dataVars, run>>

\* forward needs an object: only a construction that returned provides one.
Forward ==
    /\ attn_ctor.status = "returned"
    /\ \E n \in 0..MaxBatch, length \in 0..(MaxLength + 1),
          d_model \in 1..MaxDModel :
          /\ fwd_x' = <<n, length, d_model>>
          /\ fwd_out' = MultiHeadAttentionClassifierForward(
                            attn_ctor.object, <<n, length, d_model>>)
    /\ UNCHANGED <<attn_args, attn_ctor, padVars, dataVars, run>>

AttnNext == Construct \/ Forward

SpecAttn == AttnInit /\ [][AttnNext]_vars

(***************************************************************************)
(* Properties of MultiHeadAttentionClassifier.                             *)
(***************************************************************************)
CtorDModel == attn_args[1]
CtorNumHeads == attn_args[2]
CtorNumClasses == attn_args[3]
CtorLengthMax == attn_args[4]

\* C6: a construction returns an object only if num_heads divides d_model;
\* when it does not, the construction raises, the caller holds no object, and
\* no forward pass runs or can run.
C6_HeadsDivideDModel ==
    attn_ctor.status # "pending" =>
        /\ attn_ctor.status = "returned" => CtorDModel % CtorNumHeads = 0
        /\ CtorDModel % CtorNumHeads # 0 =>
              /\ attn_ctor.status = "raised"
              /\ attn_ctor.error = "AssertionError"
              /\ attn_ctor.object = NoObject
              /\ fwd_out = NoLogits
              /\ ~ENABLED Forward

\* C6 witness: a construction with d_model = 4 and num_heads = 3 has raised.
C6_Witness ==
    /\ attn_ctor.status = "raised"
    /\ CtorDModel = 4 /\ CtorNumHeads = 3

FwdMatches == fwd_x[2] = CtorLengthMax /\ fwd_x[3] = CtorDModel

FwdGood ==
    /\ fwd_out.status = "returned"
    /\ fwd_out.logits = <<fwd_x[1], CtorNumClasses>>
    /\ fwd_out.attended = CtorLengthMax + 1
    /\ fwd_out.classified = 0

FwdFailed == fwd_out.status = "raised" /\ fwd_out.logits = <<>>

\* C7 as stated: for every batch size N, 0 included, forward on an input of
\* shape (N, length_max, d_model) returns logits of shape (N, num_classes),
\* and forward on an input of another length raises.
C7_Original ==
    fwd_out.status # "pending" =>
        /\ FwdMatches => FwdGood
        /\ fwd_x[2] # CtorLengthMax => FwdFailed

\* C7, amended: for every batch size N >= 1, forward on an input of shape
\* (N, length_max, d_model) returns logits of shape (N, num_classes), having
\* attended over length_max + 1 positions and classified position 0, the class
\* token; for every N, forward on an input of another length raises and
\* returns no logits.
C7_ForwardShape ==
    fwd_out.status # "pending" =>
        /\ (FwdMatches /\ fwd_x[1] >= 1) => FwdGood
        /\ fwd_x[2] # CtorLengthMax => FwdFailed

\* C7 witness: a forward call on a batch of 2 sequences of length
\* length_max = 2, with 2 heads over d_model = 4, has returned logits.
C7_Witness ==
    /\ fwd_out.status = "returned"
    /\ fwd_x = <<2, 2, 4>>
    /\ CtorLengthMax = 2 /\ CtorDModel = 4 /\ CtorNumHeads = 2
    /\ fwd_out.logits = <<2, CtorNumClasses>>

(***************************************************************************)
(* The metadata tables of the model: up to MaxRows rows, the row at        *)
(* position i having idx i, any of the labels and any of the split tags.   *)
(***************************************************************************)
Splits == {"train", "val", "test"}
SplitTags == Splits \cup {"trainval"}
Labels == {"A", "B"}

Tables ==
    UNION {[1..n -> Labels \X SplitTags] : n \in 0..MaxRows}

TableOf(t) ==
    [i \in DOMAIN t |-> [idx |-> i, class |-> t[i][1], split |-> t[i][2]]]

(***************************************************************************)
(* The dataset on its own: FeatureImageDataset(...) for any split on a     *)
(* metadata table drawn from the bounded set.                              *)
(***************************************************************************)
DatasetInit ==
    /\ \E t \in Tables : disk_meta = CsvFile(TableOf(t))
    /\ disk_files = <<>>
    /\ ds = NoDatasetCall
    /\ dm = NoModule
    /\ allocs = 0
    /\ call = NoCall
    /\ it = NoPass
    /\ run = NoRun
    /\ pad_call = NoPadCall
    /\ pad_out = Pending
    /\ attn_args = <<>>
    /\ attn_ctor = NotConstructed
    /\ fwd_x = <<>>
    /\ fwd_out = NoLogits

NewDataset ==
    /\ \E split \in Splits :
          LET out == FeatureImageDataset(disk_meta, split, MaxDim, MaxDim)
          IN  ds' = [split |-> split, status |-> out.status,
                     error |-> out.error, object |-> out.object]
    /\ UNCHANGED <<disk_meta, disk_files, dm, allocs, call, it,
                   padVars, attnVars, run>>

DatasetNext == NewDataset

SpecDataset == DatasetInit /\ [][DatasetNext]_vars

(***************************************************************************)
(* The data module: construction, then setup and the three accessors in    *)
(* any order, on a metadata csv that holds a table or is missing.          *)
(***************************************************************************)
ModuleInit ==
    /\ \/ \E t \in Tables : disk_meta = CsvFile(TableOf(t))
       \/ disk_meta = NoFile
    /\ disk_files = <<>>
    /\ ds = NoDatasetCall
    /\ dm = FeatureImageDataModule(MaxDim, MaxDim, DefaultBatchSize,
                                   DefaultNumWorkers)
    /\ allocs = 0
    /\ call = NoCall
    /\ it = NoPass
    /\ run = NoRun
    /\ pad_call = NoPadCall
    /\ pad_out = Pending
    /\ attn_args = <<>>
    /\ attn_ctor = NotConstructed
    /\ fwd_x = <<>>
    /\ fwd_out = NoLogits

\* setup(): a call that returns is the allocs+1-st to build loaders.
Setup ==
    /\ allocs < MaxSetups
    /\ \E out \in ModuleSetup(dm, allocs + 1, disk_meta) :
          /\ dm' = out.self
          /\ allocs' = IF out.error = "" THEN allocs + 1 ELSE allocs
          /\ call' = [op |-> "setup",
                      status |-> IF out.error = "" THEN "returned"
                                 ELSE "raised",
                      error |-> out.error, value |-> NoLoader,
                      dm_before |-> dm]
    /\ UNCHANGED <<disk_meta, disk_files, ds, it, padVars, attnVars, run>>

TrainDataloader ==
    /\ LET out == train_dataloader(dm)
       IN  call' = [op |-> "train_dataloader", status |-> out.status,
                    error |-> out.error, value |-> out.value, dm_before |-> dm]
    /\ UNCHANGED <<disk_meta, disk_files, ds, dm, allocs, it,
                   padVars, attnVars, run>>

ValDataloader ==
    /\ LET out == val_dataloader(dm)
       IN  call' = [op |-> "val_dataloader", status |-> out.status,
                    error |-> out.error, value |-> out.value, dm_before |-> dm]
    /\ UNCHANGED <<disk_meta, disk_files, ds, dm, allocs, it,
                   padVars, attnVars, run>>

TestDataloader ==
    /\ LET out == test_dataloader(dm)
       IN  call' = [op |-> "test_dataloader", status |-> out.status,
                    error |-> out.error, value |-> out.value, dm_before |-> dm]
    /\ UNCHANGED <<disk_meta, disk_files, ds, dm, allocs, it,
                   padVars, attnVars, run>>

ModuleNext == Setup \/ TrainDataloader \/ ValDataloader \/ TestDataloader

SpecModule == ModuleInit /\ [][ModuleNext]_vars

(***************************************************************************)
(* The batch loaders: passes over the three loaders of a data module that  *)
(* has been set up.  The table has up to MaxLoaderRows rows of the         *)
(* three splits with alternating labels; the feature files are 2x3x3       *)
(* except at most one, which is missing, too tall, too wide, smaller or    *)
(* of another depth; the canvas is 5x5.                                    *)
(***************************************************************************)
ScenarioShape == <<2, 3, 3>>
ScenarioCanvas == <<5, 5>>

\* The metadata tables of the loader scenarios: the rows of a split follow
\* one another, the train rows first and the test rows last.
SplitRank(split) ==
    CASE split = "train" -> 1 [] split = "val" -> 2 [] OTHER -> 3

Grouped(t) ==
    \A i \in DOMAIN t :
       i + 1 \in DOMAIN t => SplitRank(t[i]) <= SplitRank(t[i + 1])

LoaderTables ==
    {t \in UNION {[1..n -> Splits] : n \in 0..MaxLoaderRows} : Grouped(t)}

LoaderTableOf(t) ==
    [i \in DOMAIN t |-> [idx |-> i,
                         class |-> IF i % 2 = 1 THEN "A" ELSE "B",
                         split |-> t[i]]]

FileOfKind(kind) ==
    LET d == ScenarioShape[1]
        h == ScenarioShape[2]
        w == ScenarioShape[3]
    IN  CASE kind = "missing" -> MissingFile
          [] kind = "tall" ->
                FeatureFile(InputImage(d, ScenarioCanvas[1] + 1, w, 1))
          [] kind = "wide" ->
                FeatureFile(InputImage(d, h, ScenarioCanvas[2] + 1, 1))
          [] kind = "small" -> FeatureFile(InputImage(d, h - 2, w - 1, 1))
          [] kind = "deep" -> FeatureFile(InputImage(d + 1, h, w, 1))
          [] OTHER ->
                FeatureFile(InputImage(d, h, w, 1))

FileKinds == {"missing", "tall", "wide", "small", "deep"}

FileStores(n) ==
    {[i \in 1..n |-> FileOfKind("plain")]}
    \cup {[i \in 1..n |-> IF i = k THEN FileOfKind(kind)
                          ELSE FileOfKind("plain")] :
            k \in 1..n, kind \in FileKinds}

\* The num_workers a data module is built with: none, one or the default.
LoaderWorkers == {0, 1, DefaultNumWorkers}

LoaderInit ==
    /\ \E t \in LoaderTables :
          /\ disk_meta = CsvFile(LoaderTableOf(t))
          /\ disk_files \in FileStores(Len(t))
    /\ \E batch_size \in 1..MaxBatchSize, num_workers \in LoaderWorkers :
          \E out \in ModuleSetup(
                 FeatureImageDataModule(ScenarioCanvas[2], ScenarioCanvas[1],
                                        batch_size, num_workers),
                 1, disk_meta) :
              /\ out.error = ""
              /\ dm = out.self
    /\ allocs = 1
    /\ call = NoCall
    /\ it = NoPass
    /\ run = NoRun
    /\ ds = NoDatasetCall
    /\ pad_call = NoPadCall
    /\ pad_out = Pending
    /\ attn_args = <<>>
    /\ attn_ctor = NotConstructed
    /\ fwd_x = <<>>
    /\ fwd_out = NoLogits

\* for batch in loader: the loop starts a pass; a pass that raised has ended
\* the run.
Iter ==
    /\ it.status \in {"idle", "done"}
    /\ \E attr \in LoaderAttrs : it' \in LoaderIter(attr, dm.attrs[attr])
    /\ UNCHANGED <<disk_meta, disk_files, ds, dm, allocs, call, padVars,
                   attnVars, run>>

NextBatch ==
    /\ it.status = "active"
    /\ it' \in LoaderNext(it, dm.attrs[it.attr], disk_files)
    /\ UNCHANGED <<disk_meta, disk_files, ds, dm, allocs, call, padVars,
                   attnVars, run>>

\* A worker of the loader being iterated takes up an index batch of its
\* queue, while the main process does whatever it does.  The workers are
\* shut down when the pass is done (StopIteration) or its iterator is
\* dropped; an exception that next() raises does not stop them, so they
\* may go on with the index batches of their queues for as long as the
\* iterator, or the process, is there.
WorkerFetch ==
    /\ it.status \in {"active", "raised"}
    /\ \E k \in WorkerTasks(it, dm.attrs[it.attr]) :
          it' \in WorkerLoop(it, dm.attrs[it.attr], disk_files, k)
    /\ UNCHANGED <<disk_meta, disk_files, ds, dm, allocs, call, padVars,
                   attnVars, run>>

LoaderSpecNext == Iter \/ NextBatch \/ WorkerFetch

SpecLoader == LoaderInit /\ [][LoaderSpecNext]_vars

(***************************************************************************)
(* Properties of FeatureImageDataset.                                      *)
(***************************************************************************)
RowsOfSplit(split) ==
    {i \in DOMAIN disk_meta.rows : disk_meta.rows[i].split = split}

\* C3: the length of a dataset is the number of rows of the metadata table
\* whose split is exactly the one asked for (0 when there is none), and the
\* dataset holds those rows and no row of another split.
C3_LenIsSplitCount ==
    ds.status # "pending" =>
        /\ ds.status = "returned"
        /\ DatasetLen(ds.object) = Cardinality(RowsOfSplit(ds.split))
        /\ {ds.object.metadata[i].idx : i \in DOMAIN ds.object.metadata}
              = RowsOfSplit(ds.split)
        /\ RowsOfSplit(ds.split) = {} => DatasetLen(ds.object) = 0

\* C3 witness: the val dataset of a table with a train row, a val row and a
\* trainval row has length 1.
C3_Witness ==
    /\ ds.status = "returned" /\ ds.split = "val"
    /\ DatasetLen(ds.object) = 1
    /\ Len(disk_meta.rows) = 3
    /\ \E i \in DOMAIN disk_meta.rows : disk_meta.rows[i].split = "trainval"
    /\ \E i \in DOMAIN disk_meta.rows : disk_meta.rows[i].split = "train"

\* The number of distinct labels that occur in the rows before row i.
LabelsBefore(metadata, i) ==
    Cardinality({metadata[j]["class"] : j \in 1..(i - 1)})

\* C4: class_to_index maps the K distinct labels of the dataset's rows one to
\* one onto 0..K-1 in the order of their first occurrence, and index_to_class
\* is its inverse.
C4_ClassIndexBijection ==
    ds.status = "returned" =>
        LET metadata == ds.object.metadata
            c2i == ds.object.class_to_index
            i2c == ds.object.index_to_class
            labels == {metadata[i]["class"] : i \in DOMAIN metadata}
            K == Cardinality(labels)
        IN  /\ Keys(c2i) = labels
            /\ Len(c2i) = K
            /\ Values(c2i) = 0..(K - 1)
            /\ \A i \in DOMAIN metadata :
                  (\A j \in 1..(i - 1) : metadata[j]["class"] # metadata[i]["class"])
                  => Lookup(c2i, metadata[i]["class"]) = LabelsBefore(metadata, i)
            /\ Keys(i2c) = 0..(K - 1)
            /\ Len(i2c) = K
            /\ \A c \in labels : Lookup(i2c, Lookup(c2i, c)) = c
            /\ \A i \in 0..(K - 1) : Lookup(c2i, Lookup(i2c, i)) = i

\* C4 witness: a dataset of three rows with two distinct labels, one of them
\* repeated after the other was first seen.
C4_Witness ==
    /\ ds.status = "returned"
    /\ DatasetLen(ds.object) = 3
    /\ ds.object.metadata[1]["class"] = "B"
    /\ ds.object.metadata[2]["class"] = "A"
    /\ ds.object.metadata[3]["class"] = "B"
    /\ Lookup(ds.object.class_to_index, "A") = 1

(***************************************************************************)
(* Properties of create_data_loaders and FeatureImageDataModule.           *)
(***************************************************************************)
OwnAttr(op) ==
    CASE op = "train_dataloader" -> "train_loader"
      [] op = "val_dataloader" -> "val_loader"
      [] op = "test_dataloader" -> "test_loader"

OwnSplit(op) ==
    CASE op = "train_dataloader" -> "train"
      [] op = "val_dataloader" -> "val"
      [] op = "test_dataloader" -> "test"

AccessorOps == {"train_dataloader", "val_dataloader", "test_dataloader"}

\* C5: a label that occurs in more than one of the train, val and test
\* datasets built by one create_data_loaders call has the same index in the
\* class_to_index of each of them.
C5_SameIndexAcrossSplits ==
    dm.attrs # <<>> =>
        \A a \in LoaderAttrs, b \in LoaderAttrs :
            LET ca == dm.attrs[a].dataset.class_to_index
                cb == dm.attrs[b].dataset.class_to_index
            IN  \A c \in Keys(ca) \cap Keys(cb) : Lookup(ca, c) = Lookup(cb, c)

\* C9: construction builds no loader; an accessor called while no setup has
\* returned raises AttributeError; once a setup has returned, an accessor
\* returns the loader of its own split built by the most recent setup that
\* returned, over the dataset of that split, shuffled for train only; and no
\* accessor call and no setup call that raises changes the module.
C9_ModuleLifecycle ==
    /\ allocs = 0 => dm.attrs = <<>>
    /\ allocs > 0 =>
          \A op \in AccessorOps :
              /\ dm.attrs[OwnAttr(op)].id = <<allocs, OwnSplit(op)>>
              /\ dm.attrs[OwnAttr(op)].shuffle = (op = "train_dataloader")
    /\ call.op \in AccessorOps =>
          /\ dm = call.dm_before
          /\ allocs = 0 =>
                /\ call.status = "raised"
                /\ call.error = "AttributeError"
                /\ call.value = NoLoader
          /\ allocs > 0 =>
                /\ call.status = "returned"
                /\ call.value = dm.attrs[OwnAttr(call.op)]
                /\ call.value.id = <<allocs, OwnSplit(call.op)>>
                /\ call.value.shuffle = (call.op = "train_dataloader")
                /\ call.value.dataset =
                      FeatureImageDataset(disk_meta, OwnSplit(call.op),
                                          dm.width_max, dm.height_max).object
    /\ (call.op = "setup" /\ call.status = "raised") => dm = call.dm_before
    /\ (call.op = "setup" /\ call.status = "returned") =>
          /\ call.dm_before.attrs = <<>> \/
                call.dm_before.attrs["val_loader"].id = <<allocs - 1, "val">>
          /\ dm.attrs["val_loader"].id = <<allocs, "val">>

\* C9 witness: after a second setup, val_dataloader returned the val loader
\* the second setup built, over a dataset that is not empty.
C9_Witness ==
    /\ allocs = 2
    /\ call.op = "val_dataloader" /\ call.status = "returned"
    /\ call.value.id = <<2, "val">>
    /\ DatasetLen(call.value.dataset) > 0

(***************************************************************************)
(* Properties of a pass over a loader.                                     *)
(***************************************************************************)
PassLoader == dm.attrs[it.attr]
PassRows == PassLoader.dataset.metadata
PassFile(pos) == disk_files[PassRows[pos + 1].idx]
CeilDiv(n, b) == (n + b - 1) \div b

\* Every feature file of the rows of the pass exists, fits the canvas and has
\* the depth d.
PassFilesGood(d) ==
    \A i \in DOMAIN PassRows :
        LET file == disk_files[PassRows[i].idx]
        IN  /\ file.exists
            /\ file.image.shape[1] = d
            /\ file.image.shape[2] <= dm.height_max
            /\ file.image.shape[3] <= dm.width_max

\* C8: in a pass over a loader of n rows with batch size b no position is
\* fetched twice; the m-th batch holds the next b positions of the order (the
\* last one those that are left), its tensors all of shape
\* (depth, height_max, width_max) with depth the depth of their files, and
\* the class index of each of its samples at the same place of its label
\* vector; a pass that is done has fetched every position exactly once and
\* yielded ceil(n/b) batches; and a pass over files that all exist, fit the
\* canvas and have one depth never raises.
C8_OnePass ==
    it.status # "idle" =>
        LET n == DatasetLen(PassLoader.dataset)
            b == PassLoader.batch_size
        IN  /\ DOMAIN it.fetched = 1..n
            /\ \A i \in 1..n : it.fetched[i] <= 1
            /\ Len(it.batches) <= CeilDiv(n, b)
            /\ \A m \in DOMAIN it.batches :
                  LET x == it.batches[m].x
                      y == it.batches[m].y
                  IN  /\ Len(x) = 4
                      /\ x[1] = Min(b, n - (m - 1) * b)
                      /\ x[3] = dm.height_max
                      /\ x[4] = dm.width_max
                      /\ Len(y) = x[1]
                      /\ \A j \in 1..x[1] :
                            LET pos == it.order[(m - 1) * b + j]
                            IN  /\ it.fetched[pos + 1] = 1
                                /\ PassFile(pos).image.shape[1] = x[2]
                                /\ y[j] = Lookup(
                                       PassLoader.dataset.class_to_index,
                                       PassRows[pos + 1]["class"])
            /\ it.status = "done" =>
                  /\ \A i \in 1..n : it.fetched[i] = 1
                  /\ Len(it.batches) = CeilDiv(n, b)
            /\ \A d \in 1..(ScenarioShape[1] + 1) :
                  PassFilesGood(d) =>
                      /\ it.status # "raised"
                      /\ \A m \in DOMAIN it.batches :
                            Tail(it.batches[m].x)
                               = <<d, dm.height_max, dm.width_max>>

\* C8 witness: the table has 2 train rows, 1 val row and 1 test row, every
\* file is 2x3x3, the canvas is 5x5, the batch size 2 and the loaders have
\* the default number of workers: the pass over the
\* train loader is done and has yielded one batch, of shape (2, 2, 5, 5).
C8_Witness ==
    /\ it.status = "done" /\ it.attr = "train_loader"
    /\ Len(disk_meta.rows) = 4
    /\ DatasetLen(dm.attrs["train_loader"].dataset) = 2
    /\ DatasetLen(dm.attrs["val_loader"].dataset) = 1
    /\ DatasetLen(dm.attrs["test_loader"].dataset) = 1
    /\ \A i \in DOMAIN disk_files :
          disk_files[i].exists /\ disk_files[i].image.shape = <<2, 3, 3>>
    /\ dm.height_max = 5 /\ dm.width_max = 5 /\ dm.batch_size = 2
    /\ dm.attrs["train_loader"].num_workers = DefaultNumWorkers
    /\ Len(it.batches) = 1
    /\ it.batches[1].x = <<2, 2, 5, 5>>
    /\ Len(it.batches[1].y) = 2

(***************************************************************************)
(* The padding transform on its own: one call on inputs drawn from the     *)
(* bounded sets.                                                           *)
(***************************************************************************)

PadInit ==
    /\ \E d \in 1..MaxDepth, h \in 1..MaxDim, w \in 1..MaxDim, scale \in 0..1,
          hm \in 1..MaxDim, wm \in 1..MaxDim :
          pad_call = [feature_image |-> InputImage(d, h, w, scale),
                      height_max |-> hm, width_max |-> wm]
    /\ pad_out = Pending
    /\ attn_args = <<>>
    /\ attn_ctor = NotConstructed
    /\ fwd_x = <<>>
    /\ fwd_out = NoLogits
    /\ disk_meta = NoFile
    /\ disk_files = <<>>
    /\ ds = NoDatasetCall
    /\ dm = NoModule
    /\ allocs = 0
    /\ call = NoCall
    /\ it = NoPass
    /\ run = NoRun

PadCall ==
    /\ pad_out.status = "pending"
    /\ pad_out' \in random_up_padding(pad_call.feature_image,
                                      pad_call.height_max, pad_call.width_max)
    /\ UNCHANGED <<pad_call, attnVars, dataVars, run>>

PadNext == PadCall

SpecPad == PadInit /\ [][PadNext]_vars

(***************************************************************************)
(* Properties of random_up_padding.                                        *)
(***************************************************************************)
PadImage == pad_call.feature_image
PadFits ==
    /\ PadImage.shape[2] <= pad_call.height_max
    /\ PadImage.shape[3] <= pad_call.width_max

InBlock(p, y, x, height, width) ==
    /\ p[2] >= y /\ p[2] < y + height
    /\ p[3] >= x /\ p[3] < x + width

\* C1: a call on an image that fits returns an array of shape
\* (depth, height_max, width_max) that holds the image, cell for cell, as one
\* block at the offset (y, x) drawn, and zero in every cell outside the block.
C1_PaddedShapeAndContent ==
    (PadFits /\ pad_out.status # "pending") =>
        LET img == PadImage
            out == pad_out.value
            y == pad_out.y
            x == pad_out.x
            depth == img.shape[1]
            height == img.shape[2]
            width == img.shape[3]
        IN  /\ pad_out.status = "returned"
            /\ out.shape = <<depth, pad_call.height_max, pad_call.width_max>>
            /\ DOMAIN out.data
                  = Cells(depth, pad_call.height_max, pad_call.width_max)
            /\ \A c \in 0..(depth - 1), i \in 0..(height - 1),
                  j \in 0..(width - 1) :
                  out.data[<<c, y + i, x + j>>] = img.data[<<c, i, j>>]
            /\ \A p \in DOMAIN out.data :
                  ~InBlock(p, y, x, height, width) => out.data[p] = 0

\* C1 witness: a nonzero image smaller than the canvas in both directions was
\* placed away from the top-left corner.
C1_Witness ==
    /\ pad_out.status = "returned"
    /\ PadImage.shape[1] = 2
    /\ PadImage.shape[2] = 2 /\ pad_call.height_max = 3
    /\ PadImage.shape[3] = 1 /\ pad_call.width_max = 3
    /\ PadImage.data[<<1, 1, 0>>] # 0
    /\ pad_out.y = 1 /\ pad_out.x = 2

\* C2: the offset drawn lies in 0..height_max-height by 0..width_max-width,
\* and the offsets a call can draw are exactly the pairs of that range (so
\* the only offset of an image as large as the canvas is (0, 0)).
C2_OffsetRange ==
    PadFits =>
        LET ymax == pad_call.height_max - PadImage.shape[2]
            xmax == pad_call.width_max - PadImage.shape[3]
            outs == random_up_padding(PadImage, pad_call.height_max,
                                      pad_call.width_max)
        IN  /\ pad_out.status # "pending" =>
                  /\ 0 <= pad_out.y /\ pad_out.y <= ymax
                  /\ 0 <= pad_out.x /\ pad_out.x <= xmax
            /\ {<<o.y, o.x>> : o \in outs} = (0..ymax) \X (0..xmax)
            /\ (ymax = 0 /\ xmax = 0) => {<<o.y, o.x>> : o \in outs} = {<<0, 0>>}

\* C2 witness: both end points of the range were drawn, and they are not 0.
C2_Witness ==
    /\ pad_out.status = "returned"
    /\ pad_out.y = pad_call.height_max - PadImage.shape[2]
    /\ pad_out.x = pad_call.width_max - PadImage.shape[3]
    /\ pad_out.y > 0 /\ pad_out.x > 0

\* C10: a call on an image taller than height_max or wider than width_max
\* raises at the assertion: no canvas was allocated, no offset was drawn and
\* nothing is returned.
C10_OversizeFailsFirst ==
    (~PadFits /\ pad_out.status # "pending") =>
        /\ pad_out.status = "raised"
        /\ pad_out.error = "AssertionError"
        /\ pad_out.events = <<"assert">>
        /\ pad_out.y = -1 /\ pad_out.x = -1
        /\ pad_out.value = NoArray

\* C10 witness: the call raised on an image that exceeds the maximum in its
\* height alone.
C10_Witness ==
    /\ pad_out.status = "raised"
    /\ PadImage.shape[2] > pad_call.height_max
    /\ PadImage.shape[3] < pad_call.width_max

(***************************************************************************)
(* The Lightning modules of wsiarch/models/hyena.py and                    *)
(* wsiarch/models/transformer_heme_cell_mil.py and the two train_model     *)
(* entry points.  A tensor is modelled by its shape.  The hyperparameters  *)
(* the entry points hard-code are scaled down to the sizes of the          *)
(* scenario: d_model 2048, height_max 445 and width_max 230 of the Hyena   *)
(* entry point become the depth and the canvas of the scenario, d_model    *)
(* 1000, num_heads 8 and length_max 500 of the attention entry point       *)
(* become 2, 2 and 2, and its batch_size 16 becomes 2.  One process is     *)
(* modelled: devices=num_gpus starts one such process per device.          *)
(***************************************************************************)
MaxEpochs == 2
MaxRunRows == 4

\* num_epochs=10 on line 284 of hyena.py.
HyenaNumEpochs == 10

\* The hyperparameters of the attention entry point, scaled down.
HemeScenario == [d_model |-> 2, num_heads |-> 2, length_max |-> 2,
                 batch_size |-> 2]

StepRaised(err, ev) == [status |-> "raised", error |-> err, events |-> ev]
StepReturned(ev) == [status |-> "returned", error |-> "", events |-> ev]

\* HyenaModelPL.__init__: save_hyperparameters keeps the arguments.
HyenaModelPL(d_model, num_classes, width_max, height_max, num_epochs) ==
    [kind |-> "hyena",
     hparams |-> [d_model |-> d_model, num_classes |-> num_classes,
                  width_max |-> width_max, height_max |-> height_max,
                  num_epochs |-> num_epochs],
     model |-> NoObject]

\* A module no constructor returned.
NoModel ==
    [kind |-> "", model |-> NoObject,
     hparams |-> [d_model |-> 0, num_classes |-> 0, width_max |-> 0,
                  height_max |-> 0, num_epochs |-> 0]]

\* MultiHeadAttentionClassifierPL.__init__: it builds the classifier, whose
\* constructor may raise, and then no module exists.
MultiHeadAttentionClassifierPL(d_model, num_heads, num_classes, length_max, use_flash_attention, num_epochs) ==
    LET model == MultiHeadAttentionClassifierInit(
                     d_model, num_heads, num_classes, length_max,
                     use_flash_attention)
    IN  IF model.status = "raised"
        THEN [status |-> "raised", error |-> model.error, object |-> NoModel]
        ELSE [status |-> "returned", error |-> "",
              object |-> [kind |-> "attention",
                          hparams |-> [d_model |-> d_model,
                                       num_classes |-> num_classes,
                                       width_max |-> 0,
                                       height_max |-> length_max,
                                       num_epochs |-> num_epochs],
                          model |-> model.object]]

\* HyenaOperator2D of wsiarch/models/components/hyena.py, which is not
\* among the sources: by section 4.6 of the specification it takes a batch
\* of shape (N, d_model, H, W) and preserves its shape.
HyenaOperator2D(d_model, xshape) ==
    IF Len(xshape) # 4 \/ xshape[2] # d_model
    THEN [status |-> "raised", error |-> "RuntimeError", shape |-> <<>>]
    ELSE [status |-> "returned", error |-> "", shape |-> xshape]

\* HyenaModelPL.forward: the shape of the logits, or the exception.
HyenaForward(self, xshape) ==
    LET x == HyenaOperator2D(self.hparams.d_model, xshape)
    IN  IF x.status = "raised" THEN ForwardRaised(x.error)
        ELSE IF \/ x.shape[3] # self.hparams.height_max
                \/ x.shape[4] # self.hparams.width_max
                \/ x.shape[2] # self.hparams.d_model
        THEN ForwardRaised("AssertionError")
        ELSE [status |-> "returned", error |-> "",
              logits |-> <<x.shape[1], self.hparams.num_classes>>,
              attended |-> <<>>, classified |-> <<>>]

\* self(x): forward of the module of either kind.
ModuleForward(self, xshape) ==
    IF self.kind = "hyena" THEN HyenaForward(self, xshape)
    ELSE MultiHeadAttentionClassifierForward(self.model, xshape)

\* nn.CrossEntropyLoss on logits (N, C) and N class indices: every index
\* must be one of the C classes.
CrossEntropyLoss(logits, y) ==
    IF Len(y) # logits[1] THEN "ValueError"
    ELSE IF \E i \in DOMAIN y : y[i] < 0 \/ y[i] >= logits[2]
    THEN "IndexError"
    ELSE ""

\* The body the three step methods share: forward, the loss, then the four
\* self.log calls of the split.
StepBody(self, batch, prefix) ==
    LET out == ModuleForward(self, batch.x)
    IN  IF out.status = "raised" THEN StepRaised(out.error, <<"forward">>)
        ELSE IF CrossEntropyLoss(out.logits, batch.y) # ""
        THEN StepRaised(CrossEntropyLoss(out.logits, batch.y),
                        <<"forward", "loss">>)
        ELSE StepReturned(<<"forward", "loss", "log_" \o prefix>>)

training_step(self, batch) == StepBody(self, batch, "train")
validation_step(self, batch) == StepBody(self, batch, "val")
test_step(self, batch) == StepBody(self, batch, "test")

\* configure_optimizers: AdamW and CosineAnnealingLR(T_max, eta_min=0); the
\* scheduler is modelled by T_max and the number of steps it has taken.
configure_optimizers(self) ==
    [T_max |-> self.hparams.num_epochs, eta_min |-> 0, last_epoch |-> 0]

\* scheduler.step().
SchedulerStep(scheduler) == [scheduler EXCEPT !.last_epoch = @ + 1]

\* Whether the rate of the scheduler is eta_min: the closed form
\* eta_min + (base - eta_min) * (1 + cos(pi * last_epoch / T_max)) / 2 is
\* eta_min exactly when last_epoch / T_max is an odd integer.
AtEtaMin(scheduler) ==
    /\ scheduler.T_max > 0
    /\ scheduler.last_epoch % (2 * scheduler.T_max) = scheduler.T_max

\* on_train_epoch_end: logs the rate the scheduler reports, here as the
\* number of steps the scheduler has taken.
on_train_epoch_end(scheduler) == [ev |-> "lr_log", at |-> scheduler.last_epoch]

\* HemeCellMILModule of wsiarch/data/heme_cell_mil_dataloaders.py, which is
\* not among the sources: by sections 3, 4.4 and 4.5 of the specification
\* it is a data module of the same lifecycle whose samples are sequences of
\* feature vectors padded to length_max.  A sequence is kept as an array of
\* shape (feature width, length, 1).
HemeCellMILModule(length_max, batch_size, num_workers) ==
    FeatureImageDataModule(1, length_max, batch_size, num_workers)

\* The batch such a loader hands to the model: (N, length_max, feature
\* width).
HemeBatch(x) == <<x[1], x[3], x[2]>>

\* What train_model builds before it calls trainer.fit: the data module, the
\* model and the trainer.
hyena_train_model(num_epochs) ==
    [status |-> "returned", error |-> "",
     data_module |-> FeatureImageDataModule(ScenarioCanvas[2],
                                            ScenarioCanvas[1], 1, 9),
     model |-> HyenaModelPL(ScenarioShape[1], 2, ScenarioCanvas[2],
                            ScenarioCanvas[1], HyenaNumEpochs),
     trainer |-> [max_epochs |-> num_epochs]]

\* An exception of the constructor of the model leaves train_model before
\* the trainer is built.
attention_train_model(num_epochs) ==
    LET model == MultiHeadAttentionClassifierPL(
                     HemeScenario.d_model, HemeScenario.num_heads, 2,
                     HemeScenario.length_max, TRUE, num_epochs)
    IN  [status |-> model.status, error |-> model.error,
         data_module |-> HemeCellMILModule(HemeScenario.length_max,
                                           HemeScenario.batch_size, 24),
         model |-> model.object,
         trainer |-> [max_epochs |-> IF model.status = "raised" THEN 0
                                     ELSE num_epochs]]

Variants == {"hyena", "attention"}

train_model(variant, num_epochs) ==
    IF variant = "hyena" THEN hyena_train_model(num_epochs)
    ELSE attention_train_model(num_epochs)

\* The batch as the model of the variant takes it.
ModelBatch(variant, batch) ==
    IF variant = "hyena" THEN batch
    ELSE [batch EXCEPT !.x = HemeBatch(@)]

\* trainer.fit(...) and trainer.test(...) are consecutive statements of
\* train_model: an exception of fit leaves train_model, a return goes on to
\* the test pass (AfterFitCaught is the faulty variant that goes on to the
\* test pass whatever fit did; C12 must tell the two apart).
AfterFitCaught(status) == "fitted"

AfterFit(status) == IF status = "raised" THEN "failed" ELSE "fitted"

\* max_epochs=num_epochs: fit has run all its epochs when current_epoch has
\* reached max_epochs (FitDoneEarly is the faulty variant that stops one
\* epoch short; C11 must tell the two apart).
FitDoneEarly(current_epoch, max_epochs) == current_epoch >= max_epochs - 1

FitDone(current_epoch, max_epochs) == current_epoch >= max_epochs

(***************************************************************************)
(* pytorch_lightning.Trainer with the defaults train_model leaves in       *)
(* place: two sanity validation batches before training, validation after *)
(* every training epoch, schedulers stepped once per epoch after the last  *)
(* training batch, and a data fetcher that holds one batch ahead of the    *)
(* one being processed.  The train loader has at least one batch.          *)
(***************************************************************************)

\* The loader a stage of the trainer iterates.
StageAttr(stage) ==
    CASE stage = "train" -> "train_loader"
      [] stage = "test" -> "test_loader"
      [] OTHER -> "val_loader"

\* How many batches a stage takes at most: num_sanity_val_steps for the
\* sanity check, the whole loader otherwise (-1).
StageLimit(stage) == IF stage = "sanity" THEN 2 ELSE -1

\* Whether the fetcher may ask the loader for one more batch.
MayFetch(stage, pass) ==
    /\ pass.status = "active"
    /\ StageLimit(stage) = -1 \/ Len(pass.batches) < StageLimit(stage)

\* One event of the history of the run.
Event(ev, r) == [ev |-> ev, stage |-> r.stage, epoch |-> r.epoch]
Events(evs, r) == [i \in DOMAIN evs |-> Event(evs[i], r)]

\* The fetches of a pass that is over added to the fetches of the run.
AddFetches(fetches, pass) ==
    IF pass.status = "idle" THEN fetches
    ELSE [fetches EXCEPT ![pass.attr] =
            [i \in DOMAIN @ |-> @[i] + pass.fetched[i]]]

\* The run after an exception left fit or test.
Fail(r, err, evs) ==
    [r EXCEPT !.pc = IF r.stage = "test" THEN "failed" ELSE AfterFit("raised"),
              !.error = err,
              !.trace = @ \o Events(evs \o <<"raise">>, r)]

(***************************************************************************)
(* One run of train_model of either variant, from the call of trainer.fit  *)
(* on.  The metadata csv is missing or holds up to MaxRunRows rows of the  *)
(* three splits, grouped by split, at least one of them of the train split *)
(* (whether a train loader can be built on no row depends on the version   *)
(* of torch); the                                                          *)
(* feature files are plain except at most one, which is missing, longer    *)
(* than the padding maximum or of another depth.                           *)
(***************************************************************************)
RunShape(variant) ==
    IF variant = "hyena" THEN ScenarioShape ELSE <<HemeScenario.d_model, 1, 1>>

RunCanvas(variant) ==
    IF variant = "hyena" THEN ScenarioCanvas ELSE <<HemeScenario.length_max, 1>>

RunFile(variant, kind) ==
    LET shape == RunShape(variant)
    IN  CASE kind = "missing" -> MissingFile
          [] kind = "tall" ->
                FeatureFile(InputImage(shape[1], RunCanvas(variant)[1] + 1,
                                       shape[3], 1))
          [] kind = "deep" ->
                FeatureFile(InputImage(shape[1] + 1, shape[2], shape[3], 1))
          [] OTHER -> FeatureFile(InputImage(shape[1], shape[2], shape[3], 1))

RunFileKinds == {"missing", "tall", "deep"}

RunFileStores(variant, n) ==
    {[i \in 1..n |-> RunFile(variant, "plain")]}
    \cup {[i \in 1..n |-> IF i = k THEN RunFile(variant, kind)
                          ELSE RunFile(variant, "plain")] :
            k \in 1..n, kind \in RunFileKinds}

RunTables ==
    {t \in UNION {[1..n -> Splits] : n \in 1..MaxRunRows} :
       Grouped(t) /\ \E i \in DOMAIN t : t[i] = "train"}

TrainInit ==
    /\ \E variant \in Variants, num_epochs \in 1..MaxEpochs :
          /\ \/ /\ disk_meta = NoFile
                /\ disk_files = <<>>
             \/ \E t \in RunTables :
                   /\ disk_meta = CsvFile(LoaderTableOf(t))
                   /\ disk_files \in RunFileStores(variant, Len(t))
          /\ dm = train_model(variant, num_epochs).data_module
          /\ run = [pc |-> IF train_model(variant, num_epochs).status
                                  = "raised"
                             THEN "failed" ELSE "fit",
                    variant |-> variant,
                    num_epochs |-> num_epochs,
                    model |-> train_model(variant, num_epochs).model,
                    max_epochs |->
                        train_model(variant, num_epochs).trainer.max_epochs,
                    stage |-> "", epoch |-> 0,
                    scheduler |-> [T_max |-> 0, eta_min |-> 0,
                                   last_epoch |-> 0],
                    optimizer_steps |-> 0, taken |-> 0, trace |-> <<>>,
                    error |-> train_model(variant, num_epochs).error,
                    test_passes |-> 0,
                    fetches |-> [a \in LoaderAttrs |-> <<>>]]
    /\ allocs = 0
    /\ call = NoCall
    /\ it = NoPass
    /\ ds = NoDatasetCall
    /\ pad_call = NoPadCall
    /\ pad_out = Pending
    /\ attn_args = <<>>
    /\ attn_ctor = NotConstructed
    /\ fwd_x = <<>>
    /\ fwd_out = NoLogits

\* trainer.fit(model, data_module), up to the first loop: the data module is
\* set up and the optimizer and the scheduler are configured.
Fit ==
    /\ run.pc = "fit"
    /\ \E out \in ModuleSetup(dm, allocs + 1, disk_meta) :
          IF out.error # ""
          THEN /\ run' = Fail(run, out.error, <<"setup">>)
               /\ UNCHANGED <<dm, allocs>>
          ELSE /\ dm' = out.self
               /\ allocs' = allocs + 1
               /\ run' = [run EXCEPT
                            !.pc = "iter", !.stage = "sanity",
                            !.scheduler = configure_optimizers(run.model),
                            !.fetches =
                                [a \in LoaderAttrs |->
                                   [i \in 1..DatasetLen(
                                              out.self.attrs[a].dataset)
                                      |-> 0]],
                            !.trace = @ \o Events(
                                <<"setup", "configure_optimizers">>, run)]
    /\ UNCHANGED <<disk_meta, disk_files, ds, call, it, padVars, attnVars>>

\* A loop of the trainer starts a pass over its loader: iter(loader) starts
\* the workers of the loader and sends them their first index batches.  The
\* pass before it is dropped, and its workers with it.
StartPass ==
    /\ run.pc = "iter"
    /\ it' \in LoaderIter(StageAttr(run.stage), dm.attrs[StageAttr(run.stage)])
    /\ run' = [run EXCEPT !.pc = "first", !.fetches = AddFetches(@, it),
                          !.taken = 0]
    /\ UNCHANGED <<disk_meta, disk_files, ds, dm, allocs, call, padVars,
                   attnVars>>

\* The fetcher takes the first batch of the pass before the loop runs its
\* first turn: next() waits for the workers, which fetch meanwhile.
FirstBatch ==
    /\ run.pc = "first"
    /\ \E p \in LoaderNext(it, dm.attrs[it.attr], disk_files) :
          /\ it' = p
          /\ run' = IF p.status = "raised"
                    THEN Fail(run, p.error, <<"fetch">>)
                    ELSE [run EXCEPT !.pc = "loop"]
    /\ UNCHANGED <<disk_meta, disk_files, ds, dm, allocs, call, padVars,
                   attnVars>>

\* One turn of a loop.  The fetcher asked the loader for the batch after the
\* one it holds (pass became p) and the step method ran on the batch it held
\* (out); after a training step the trainer runs backward and the optimizer,
\* and after the last training batch of the epoch the scheduler.
AfterTurn(r, pass, p, out, optimize) ==
    LET is_last == ~MayFetch(r.stage, p)
    IN  IF p.status = "raised" THEN Fail(r, p.error, <<"fetch">>)
        ELSE IF out.status = "raised"
        THEN Fail(r, out.error, out.events)
        ELSE [r EXCEPT
                !.taken = @ + 1,
                !.optimizer_steps = IF optimize THEN @ + 1 ELSE @,
                !.scheduler = IF optimize /\ is_last THEN SchedulerStep(@)
                              ELSE @,
                !.trace = @ \o Events(
                    out.events
                    \o (IF optimize THEN <<"backward", "optimizer_step">>
                        ELSE <<>>)
                    \o (IF optimize /\ is_last THEN <<"scheduler_step">>
                        ELSE <<>>), r)]

\* The passes the fetcher can be left with when it hands over a batch.
Prefetched(stage, pass, loader, files) ==
    IF MayFetch(stage, pass) THEN LoaderNext(pass, loader, files) ELSE {pass}

\* The batch the fetcher holds.
HeldBatch(r, pass) == ModelBatch(r.variant, pass.batches[r.taken + 1])

TrainingStep ==
    /\ run.pc = "loop"
    /\ run.stage = "train"
    /\ Len(it.batches) > run.taken
    /\ \E p \in Prefetched(run.stage, it, dm.attrs[it.attr], disk_files) :
          /\ it' = p
          /\ run' = AfterTurn(run, it, p,
                              training_step(run.model, HeldBatch(run, it)),
                              TRUE)
    /\ UNCHANGED <<disk_meta, disk_files, ds, dm, allocs, call, padVars,
                   attnVars>>

ValidationStep ==
    /\ run.pc = "loop"
    /\ run.stage \in {"sanity", "val"}
    /\ Len(it.batches) > run.taken
    /\ \E p \in Prefetched(run.stage, it, dm.attrs[it.attr], disk_files) :
          /\ it' = p
          /\ run' = AfterTurn(run, it, p,
                              validation_step(run.model, HeldBatch(run, it)),
                              FALSE)
    /\ UNCHANGED <<disk_meta, disk_files, ds, dm, allocs, call, padVars,
                   attnVars>>

TestStep ==
    /\ run.pc = "loop"
    /\ run.stage = "test"
    /\ Len(it.batches) > run.taken
    /\ \E p \in Prefetched(run.stage, it, dm.attrs[it.attr], disk_files) :
          /\ it' = p
          /\ run' = AfterTurn(run, it, p,
                              test_step(run.model, HeldBatch(run, it)),
                              FALSE)
    /\ UNCHANGED <<disk_meta, disk_files, ds, dm, allocs, call, padVars,
                   attnVars>>

\* A loop ends when the fetcher holds no batch and can fetch none.  After the
\* sanity check fit goes on to the first epoch; after the training batches
\* of an epoch comes its validation, then its on_train_epoch_end; after the
\* test loop train_model returns.
EndPass ==
    /\ run.pc = "loop"
    /\ Len(it.batches) = run.taken
    /\ ~MayFetch(run.stage, it)
    /\ run' =
         CASE run.stage = "sanity" ->
                [run EXCEPT !.pc = "iter", !.stage = "train"]
           [] run.stage = "train" ->
                [run EXCEPT !.pc = "iter", !.stage = "val"]
           [] run.stage = "val" -> [run EXCEPT !.pc = "epoch_end"]
           [] OTHER ->
                [run EXCEPT !.pc = "done",
                            !.trace = @ \o Events(<<"test_return">>, run)]
    /\ UNCHANGED <<disk_meta, disk_files, ds, dm, allocs, call, it, padVars,
                   attnVars>>

\* on_train_epoch_end logs the rate; then the epoch is over and fit starts
\* the next one, or returns after max_epochs of them.
OnTrainEpochEnd ==
    /\ run.pc = "epoch_end"
    /\ LET logged == [run EXCEPT
                        !.trace = Append(@, Event("lr_log", run)),
                        !.epoch = @ + 1]
       IN  run' = IF FitDone(logged.epoch, run.max_epochs)
                  THEN [logged EXCEPT
                          !.pc = AfterFit("returned"),
                          !.trace = Append(@, Event("fit_return", logged))]
                  ELSE [logged EXCEPT !.pc = "iter", !.stage = "train"]
    /\ UNCHANGED <<disk_meta, disk_files, ds, dm, allocs, call, it, padVars,
                   attnVars>>

\* trainer.test(model, data_module.test_dataloader()).
TrainerTest ==
    /\ run.pc = "fitted"
    /\ LET out == test_dataloader(dm)
           testing == [run EXCEPT !.stage = "test"]
       IN  run' = IF out.status = "raised"
                  THEN Fail(testing, out.error, <<"test_dataloader">>)
                  ELSE [testing EXCEPT
                          !.pc = "iter",
                          !.test_passes = @ + 1,
                          !.trace = Append(@, Event("test_start", testing))]
    /\ UNCHANGED <<disk_meta, disk_files, ds, dm, allocs, call, it, padVars,
                   attnVars>>

TrainNext ==
    \/ Fit
    \/ StartPass
    \/ FirstBatch
    \/ TrainingStep
    \/ ValidationStep
    \/ TestStep
    \/ EndPass
    \/ OnTrainEpochEnd
    \/ TrainerTest
    \/ WorkerFetch

SpecTrain == TrainInit /\ [][TrainNext]_vars

(***************************************************************************)
(* Properties of the training run.                                         *)
(***************************************************************************)
TrainStepEvents == {"forward", "loss", "log_train", "backward",
                    "optimizer_step"}
IsTrainEvent(e) == e.stage = "train" /\ e.ev \in TrainStepEvents
IsEpochEndEvent(e) == e.ev \in {"scheduler_step", "lr_log"}
IsStepEvent(e) ==
    e.ev \in TrainStepEvents \cup {"log_val", "log_test", "scheduler_step",
                                   "lr_log"}
EventsAt(name) == {i \in DOMAIN run.trace : run.trace[i].ev = name}
RunEnded == run.pc \in {"done", "failed"}

\* The place of an event in the order the claim gives: the training batches
\* of epoch e, then its scheduler step, then its lr log, then epoch e+1.
IsOrderedEvent(e) == IsTrainEvent(e) \/ IsEpochEndEvent(e)
Place(e) ==
    3 * e.epoch + (CASE e.ev = "scheduler_step" -> 1
                     [] e.ev = "lr_log" -> 2
                     [] OTHER -> 0)

\* Within an epoch the training batches come before the scheduler step and
\* the lr log of the epoch, and these before the training batches of every
\* later epoch: along the history the places never go down.  An epoch after
\* the first does not start without the scheduler step and the lr log of
\* the one before.
EpochOrder ==
    LET ordered == SelectSeq(run.trace, IsOrderedEvent)
    IN  /\ \A k \in 1..(Len(ordered) - 1) :
              Place(ordered[k]) <= Place(ordered[k + 1])
        /\ \A k \in 1..Len(ordered) :
              IsTrainEvent(ordered[k]) /\ ordered[k].epoch > 0
              => \A name \in {"scheduler_step", "lr_log"} :
                    \E i \in 1..(k - 1) :
                       /\ ordered[i].ev = name
                       /\ ordered[i].epoch = ordered[k].epoch - 1

\* The optimizer steps only on training batches: never in the sanity check,
\* in validation or in the test pass.
NoOptimizerStepOutsideTraining ==
    /\ \A i \in DOMAIN run.trace :
          run.trace[i].ev \in {"backward", "optimizer_step"}
          => run.trace[i].stage = "train"
    /\ run.optimizer_steps = Cardinality(EventsAt("optimizer_step"))
    /\ Cardinality(EventsAt("optimizer_step"))
         = Cardinality(EventsAt("log_train"))

\* The test pass starts at most once and after everything fit does.
TestAfterFit ==
    /\ run.test_passes = Cardinality(EventsAt("test_start"))
    /\ run.test_passes <= 1
    /\ \A i \in EventsAt("test_start") :
          /\ \E j \in 1..(i - 1) : run.trace[j].ev = "fit_return"
          /\ \A j \in DOMAIN run.trace :
                IsStepEvent(run.trace[j])
                /\ run.trace[j].stage \in {"sanity", "train", "val"}
                => j < i
          /\ \A j \in DOMAIN run.trace :
                run.trace[j].stage = "test" /\ run.trace[j].ev # "fit_return"
                => j >= i

\* The epochs fit has completed: each ends with its lr log.
EpochsCompleted == Cardinality(EventsAt("lr_log"))

\* The claim as stated: whatever way the run ends, the test pass has
\* happened exactly once, after max_epochs completed epochs.
C11_Original ==
    /\ EpochOrder
    /\ NoOptimizerStepOutsideTraining
    /\ TestAfterFit
    /\ run.test_passes = 1 => EpochsCompleted = run.max_epochs
    /\ RunEnded => run.test_passes = 1

\* C11 (amended): in every run of train_model of either variant, within
\* epoch e every training batch step precedes the scheduler step and the lr
\* log of epoch e, which precede every training batch of epoch e+1;
\* validation steps never perform an optimizer step; the test pass starts at
\* most once and only after fit has returned, which is after all max_epochs
\* training epochs have completed; and in a run that ends without an error
\* the test pass happens exactly once.
C11_TrainingOrder ==
    /\ EpochOrder
    /\ NoOptimizerStepOutsideTraining
    /\ TestAfterFit
    /\ run.test_passes = 1
       => /\ EpochsCompleted = run.max_epochs
          /\ run.scheduler.last_epoch = run.max_epochs
    /\ run.pc = "done" => run.test_passes = 1 /\ run.error = ""
    /\ run.pc = "failed" => run.error # ""

\* A run of two epochs with two training batches in each, with validation
\* and test batches, has ended.
C11_Witness ==
    /\ run.pc = "done"
    /\ run.max_epochs = 2
    /\ run.optimizer_steps = 4
    /\ EpochsCompleted = 2
    /\ Cardinality(EventsAt("log_val")) >= 3
    /\ Cardinality(EventsAt("log_test")) >= 1
    /\ run.test_passes = 1

\* The error the run ended with, if any, and how it came about.
RunRaised == run.error # ""
LastEvent == run.trace[Len(run.trace)]
RaisedBy(ev) ==
    /\ RunRaised
    /\ Len(run.trace) >= 2
    /\ run.trace[Len(run.trace) - 1].ev = ev

\* Whether fetching row i (from 1) of a loader can only raise.
FetchFails(attr, i) ==
    \A o \in GetItem(dm.attrs[attr].dataset, disk_files, i - 1) :
       o.status = "raised"

\* How often row i (from 1) of a loader has been fetched in the run: in the
\* passes that are over and in the one under way.
TotalFetches(attr, i) ==
    (IF i \in DOMAIN run.fetches[attr] THEN run.fetches[attr][i] ELSE 0)
    + (IF it.attr = attr /\ i \in DOMAIN it.fetched THEN it.fetched[i] ELSE 0)

\* Whether a fetch ended the run.
FetchEndedRun ==
    RaisedBy("fetch") /\ it.error \in {"FileNotFoundError", "AssertionError"}

\* A fetch that raises is attempted once: no row whose fetch raises is ever
\* fetched again, and when a fetch ended the run it is the one fetch of
\* such a row.
FailingFetchOnce ==
    /\ \A a \in LoaderAttrs : \A i \in DOMAIN run.fetches[a] :
          FetchFails(a, i) => TotalFetches(a, i) <= 1
    /\ FetchEndedRun
       => /\ it.status = "raised"
          /\ \E i \in DOMAIN it.fetched :
                FetchFails(it.attr, i) /\ TotalFetches(it.attr, i) = 1

\* Whether row i (from 1) of the validation loader, which does not shuffle,
\* lies beyond the batches the sanity check takes.
BeyondSanity(i) ==
    i > StageLimit("sanity") * dm.attrs["val_loader"].batch_size

\* The error of a fetch that the loop is handed is not retried: no pass
\* fetches a row twice, the fetch that ended the run was the one fetch of
\* its row in that pass, and a row whose fetch raises is never fetched in
\* two passes, except a validation row beyond the sanity check, which the
\* workers started by the sanity check may have fetched before the
\* validation pass did.
FailingFetchNotRetried ==
    /\ \A i \in DOMAIN it.fetched : it.fetched[i] <= 1
    /\ \A a \in LoaderAttrs : \A i \in DOMAIN run.fetches[a] :
          FetchFails(a, i)
          => TotalFetches(a, i)
               <= (IF a = "val_loader" /\ BeyondSanity(i) THEN 2 ELSE 1)
    /\ FetchEndedRun
       => /\ it.status = "raised"
          /\ \E i \in DOMAIN it.fetched :
                FetchFails(it.attr, i) /\ it.fetched[i] = 1

\* Whether the trainer can take a step: any step of the run but the fetch
\* of a loader worker.
TrainerCanStep ==
    \/ ENABLED Fit
    \/ ENABLED StartPass
    \/ ENABLED FirstBatch
    \/ ENABLED TrainingStep
    \/ ENABLED ValidationStep
    \/ ENABLED TestStep
    \/ ENABLED EndPass
    \/ ENABLED OnTrainEpochEnd
    \/ ENABLED TrainerTest

\* The error leaves train_model: the run is over, the raise is the last thing
\* in its history and no step of the trainer can follow it (the workers of
\* the loader may still fetch what was sent to them, until the process
\* ends; what they fetch is handed to no loop).
RaiseEndsRun ==
    /\ ~RunRaised => EventsAt("raise") = {} /\ run.pc # "failed"
    /\ RunRaised
       => /\ run.pc = "failed"
          /\ EventsAt("raise") = {Len(run.trace)}
          /\ ~TrainerCanStep

\* The claim as stated: a fetch that raises is attempted once in the whole
\* run, and after an error of any fetch or forward pass the test pass has
\* never started.
C12_Original ==
    /\ FailingFetchOnce
    /\ RaiseEndsRun
    /\ RunRaised => run.test_passes = 0

\* C12 (amended): an error raised while fetching a sample (missing backing
\* file, feature tensor exceeding the padding maxima) or during a forward
\* pass (shape mismatch) that reaches the loop of the trainer is never
\* caught or retried: the failing fetch is attempted exactly once in the
\* pass that raises it (and at most once before, by the workers the sanity
\* check started, for a validation sample beyond its two batches), the
\* error propagates out of the batch-loading or forward call, the run
\* terminates and no later batch of any split is processed; and when the
\* error is raised before the test pass, the test pass never starts.
C12_ErrorsEndTheRun ==
    /\ FailingFetchNotRetried
    /\ RaiseEndsRun
    /\ RunRaised /\ LastEvent.stage # "test"
       => /\ run.test_passes = 0
          /\ \A i \in DOMAIN run.trace : run.trace[i].stage # "test"
    /\ RunRaised /\ LastEvent.stage = "test" => run.test_passes = 1

\* A validation sample whose file is missing, beyond the reach of the sanity
\* check, ended the run after the training batches of the first epoch had
\* been processed; a worker of the sanity check had fetched it before.
C12_Witness ==
    /\ run.pc = "failed"
    /\ run.stage = "val"
    /\ RaisedBy("fetch")
    /\ run.error = "FileNotFoundError"
    /\ run.optimizer_steps >= 1
    /\ \E i \in DOMAIN it.fetched :
          /\ FetchFails("val_loader", i)
          /\ it.fetched[i] = 1
          /\ TotalFetches("val_loader", i) = 2
    /\ run.test_passes = 0

\* C13: for every num_epochs passed to a train_model entry point, of the
\* Hyena and of the attention model, the period T_max of the cosine schedule
\* the model configures equals the max_epochs of the trainer, so that when
\* fit returns the schedule has been stepped exactly T_max times and the
\* rate is at eta_min.
C13_ScheduleSpansRun ==
    /\ EventsAt("configure_optimizers") # {}
       => run.scheduler.T_max = run.max_epochs
    /\ EventsAt("fit_return") # {}
       => /\ run.scheduler.last_epoch = run.scheduler.T_max
          /\ AtEtaMin(run.scheduler)
====
